---- MODULE Spec2Model ----
(***************************************************************************)
(* Model of generate_dla_grid (src/dla_generator.py) and of                *)
(* metropolis_hastings (src/metropolis_hastings_algorithm.py).             *)
(*                                                                         *)
(* Distances are kept squared: the code's radius is always 10 or the       *)
(* square root of an integer, so radiusSq holds radius^2 and every         *)
(* comparison of the code is made on squares (or on 4 * squares where the  *)
(* half-integer max radius size/2 - 2 is involved).                        *)
(***************************************************************************)
EXTENDS Integers, Sequences, FiniteSets, TLC

\* generate_dla_grid: size, the occupied cells, radius^2, particle_position, the
\* passes of the for loop made, the place in the code, the last particle's end
VARIABLES size, grid, radiusSq, pos, steps, pc, outcome

\* metropolis_hastings (its size and place in the code are size and pc above):
\* alpha, x, output, burn; the burn passed in and every accepted candidate
VARIABLES alpha, x, output, burn, burn0, accepted

dlaVars == <<grid, radiusSq, pos, steps, outcome>>

mhVars == <<alpha, x, output, burn, burn0, accepted>>

vars == <<size, pc, dlaVars, mhVars>>

(* ------------------------------ bounds --------------------------------- *)

\* sizes -NegSizes .. -1 are tried besides 0 and the positive ones
NegSizes == 1

\* the size tried, besides the smallest one, for which the main loop is entered
LoopSize == 27

\* SpecFree stops spawning particles once this many cells have been committed
MaxStuck == 1

\* SpecFree follows a particle for its first FreeSteps steps only
FreeSteps == 12

\* metropolis_hastings: size in 0 .. MaxSamples, burn in 0 .. MaxBurn,
\* alpha in 1 .. MaxAlpha
MaxSamples == 2

MaxBurn == 2

MaxAlpha == 2

\* the density tried is Peak - |v| where that is positive, and 0 elsewhere
Peak == 2

(* ------------------------- program constants --------------------------- *)

\* C._radius
InitRadius == 10

\* range(200)
WalkSteps == 200

\* a slip in the table of directions: (+2, +0) for (+1, +0)
possible_directions_slip ==
    << <<2, 0>>, <<1, 1>>, <<0, 1>>, <<-1, 1>>,
       <<-1, 0>>, <<-1, -1>>, <<0, -1>>, <<1, -1>> >>

\* C._possible_directions, in the order of the source
possible_directions ==
    << <<1, 0>>, <<1, 1>>, <<0, 1>>, <<-1, 1>>,
       <<-1, 0>>, <<-1, -1>>, <<0, -1>>, <<1, -1>> >>

(* ------------------------------ helpers -------------------------------- *)

Abs(i) == IF i < 0 THEN -i ELSE i

Max0(i) == IF i < 0 THEN 0 ELSE i

\* numpy's round(): halves go to the even neighbour; here of n / 2, n >= 0
RoundHalfEven2(n) ==
    IF n % 2 = 0 THEN n \div 2
    ELSE IF ((n - 1) \div 2) % 2 = 0 THEN (n - 1) \div 2 ELSE (n + 1) \div 2

\* C.center(): (shape / 2).round().astype(int), the same on both axes
center(n) == <<RoundHalfEven2(n), RoundHalfEven2(n)>>

\* squared Euclidean distance of p from the center
DistSq(n, p) ==
    (p[1] - center(n)[1]) * (p[1] - center(n)[1])
        + (p[2] - center(n)[2]) * (p[2] - center(n)[2])

\* the margin of 2 forgotten: radius < n / 2
BelowHalfSize(n, rSq) == n > 0 /\ 4 * rSq < n * n

\* radius < C.max_radius(), max_radius = n / 2 - 2, on 4 * squares
BelowMaxRadius(n, rSq) == n - 4 > 0 /\ 4 * rSq < (n - 4) * (n - 4)

\* C.out_of_bounds(position): distance from the center > radius
out_of_bounds(n, rSq, p) == DistSq(n, p) > rSq

\* the upper edge tested against shape instead of shape - 1
HitEdgeLate(n, p) == p[1] < 0 \/ p[1] >= n \/ p[2] < 0 \/ p[2] >= n

\* the bounds test of the walk: the particle hit the edge of the grid
HitEdge(n, p) == p[1] < 0 \/ p[1] >= n - 1 \/ p[2] < 0 \/ p[2] >= n - 1

\* a numpy index on an axis of length n is valid in -n .. n-1
IndexOK(n, i) == -n <= i /\ i < n

\* a negative index counts from the end
Wrap(n, i) == IF i < 0 THEN i + n ELSE i

\* self[i, j]: "IndexError", or the cell's value as "True" / "False"
Read(n, g, c) ==
    IF ~IndexOK(n, c[1]) \/ ~IndexOK(n, c[2]) THEN "IndexError"
    ELSE IF <<Wrap(n, c[1]), Wrap(n, c[2])>> \in g THEN "True" ELSE "False"

\* any(...) over the 8 probes from the k-th on: stops at the first True
RECURSIVE AnyFrom(_, _, _, _)
AnyFrom(n, g, p, k) ==
    IF k > Len(possible_directions) THEN "False"
    ELSE LET r == Read(n, g, <<p[1] + possible_directions[k][1],
                               p[2] + possible_directions[k][2]>>)
         IN IF r = "False" THEN AnyFrom(n, g, p, k + 1) ELSE r

\* the test answered without a look at the grid
has_neighbors_always(n, g, p) == "True"

\* C.has_neighbors(coordinate): "True", "False" or "IndexError"
has_neighbors(n, g, p) == AnyFrom(n, g, p, 1)

\* the cell east of p set with it
OccupyWide(n, g, p) ==
    g \cup {<<Wrap(n, p[1]), Wrap(n, p[2])>>, <<Wrap(n, p[1] + 1), Wrap(n, p[2])>>}

\* the cell flipped instead of set
OccupyFlip(n, g, p) ==
    LET c == <<Wrap(n, p[1]), Wrap(n, p[2])>>
    IN IF c \in g THEN g \ {c} ELSE g \cup {c}

\* grid[x, y] = True, the indices read as numpy reads them
Occupy(n, g, p) == g \cup {<<Wrap(n, p[1]), Wrap(n, p[2])>>}

\* floor of the square root
ISqrt(k) == CHOOSE m \in 0..k : m * m <= k /\ (m + 1) * (m + 1) > k

\* o = (round(cos(t) * radius), round(sin(t) * radius)) for some angle t: the
\* circle crosses the unit square around the lattice point o. (4 * rSq is never
\* the squared distance of a corner or an edge of such a square, so no angle
\* lands on a tie of round().)
IsEntryOffset(rSq, o) ==
    /\ Max0(2 * Abs(o[1]) - 1) * Max0(2 * Abs(o[1]) - 1)
         + Max0(2 * Abs(o[2]) - 1) * Max0(2 * Abs(o[2]) - 1) < 4 * rSq
    /\ 4 * rSq < (2 * Abs(o[1]) + 1) * (2 * Abs(o[1]) + 1)
                   + (2 * Abs(o[2]) + 1) * (2 * Abs(o[2]) + 1)

\* every offset the entry angle random.random() * 2 * pi can give
EntryOffsets(rSq) ==
    LET m == ISqrt(rSq) + 1
    IN {o \in ((-m)..m) \X ((-m)..m) : IsEntryOffset(rSq, o)}

\* the offsets of the angles 0 and pi: the entries on the row of the center
LaneOffsets(rSq) ==
    LET m == ISqrt(rSq) + 1
    IN {o \in ((-m)..m) \X {0} : IsEntryOffset(rSq, o)}

\* the directions along the row of the center: (+1, 0) and (-1, 0)
LaneDirs == {1, 5}

\* the radius set short of the particle's distance
GrowRadiusShort(n, rSq, p) ==
    IF out_of_bounds(n, rSq, p) THEN DistSq(n, p) - 1 ELSE rSq

\* set_radius forgotten
GrowRadiusNever(n, rSq, p) == rSq

\* the radius set without the out_of_bounds test
GrowRadiusAlways(n, rSq, p) == DistSq(n, p)

\* the radius set to the squared distance: the root forgotten
GrowRadiusNoRoot(n, rSq, p) ==
    IF out_of_bounds(n, rSq, p) THEN DistSq(n, p) * DistSq(n, p) ELSE rSq

\* set_radius(distance of p) when p is out of the circle
GrowRadius(n, rSq, p) == IF out_of_bounds(n, rSq, p) THEN DistSq(n, p) ELSE rSq

(* ------------------------------- state --------------------------------- *)

\* the largest size whose max radius size / 2 - 2 is not above C._radius
MaxIdleSize == 2 * (InitRadius + 2)

\* the sizes tried: every size that never enters the main loop down to
\* -NegSizes, the smallest size that enters it, and LoopSize
Sizes == ((-NegSizes)..MaxIdleSize) \cup {MaxIdleSize + 1, LoopSize}

Init ==
    /\ size \in Sizes
    /\ grid = {}
    /\ radiusSq = InitRadius * InitRadius
    /\ pos = <<0, 0>>
    /\ steps = 0
    /\ pc = "create"
    /\ outcome = "NONE"
    /\ alpha = 0 /\ x = 0 /\ output = <<>> /\ burn = 0 /\ burn0 = 0
    /\ accepted = <<>>

\* an empty grid let through: the seed skipped when there is no cell for it
CreateEmptyAllowed ==
    /\ pc = "create"
    /\ IF size < 0
       THEN /\ pc' = "raised"
            /\ grid' = grid
       ELSE /\ pc' = "loop"
            /\ grid' = IF size = 0 THEN grid ELSE Occupy(size, grid, center(size))
    /\ UNCHANGED <<size, radiusSq, pos, steps, outcome, mhVars>>

\* the seed forgotten
CreateUnseeded ==
    /\ pc = "create"
    /\ pc' = IF size < 0 THEN "raised" ELSE "loop"
    /\ UNCHANGED <<size, grid, radiusSq, pos, steps, outcome, mhVars>>

\* np.zeros((size, size)) and the seed: a negative size is a ValueError, the
\* seed of a 0 x 0 grid an IndexError
Create ==
    /\ pc = "create"
    /\ IF size < 0 \/ ~IndexOK(size, center(size)[1])
       THEN /\ pc' = "raised"
            /\ grid' = grid
       ELSE /\ pc' = "loop"
            /\ grid' = Occupy(size, grid, center(size))
    /\ UNCHANGED <<size, radiusSq, pos, steps, outcome, mhVars>>

\* the while test holds: a particle enters on the circle
SpawnAt(offsets) ==
    /\ pc = "loop"
    /\ BelowMaxRadius(size, radiusSq)
    /\ \E o \in offsets :
         pos' = <<center(size)[1] + o[1], center(size)[2] + o[2]>>
    /\ steps' = 0
    /\ pc' = "walk"
    /\ UNCHANGED <<size, grid, radiusSq, outcome, mhVars>>

\* the return made without the while test
ReturnAnytime ==
    /\ pc = "loop"
    /\ pc' = "done"
    /\ UNCHANGED <<size, grid, radiusSq, pos, steps, outcome, mhVars>>

\* the while test fails: return grid
Return ==
    /\ pc = "loop"
    /\ ~BelowMaxRadius(size, radiusSq)
    /\ pc' = "done"
    /\ UNCHANGED <<size, grid, radiusSq, pos, steps, outcome, mhVars>>

\* a particle that hit the edge is written to the grid before the break
StepToTrail(p) ==
    /\ pos' = p
    /\ steps' = steps + 1
    /\ IF HitEdge(size, p)
       THEN /\ pc' = "loop"
            /\ outcome' = "ESCAPED"
            /\ grid' = Occupy(size, grid, p)
            /\ UNCHANGED radiusSq
       ELSE LET h == has_neighbors(size, grid, p)
            IN IF h = "IndexError"
               THEN /\ pc' = "raised"
                    /\ UNCHANGED <<grid, radiusSq, outcome>>
               ELSE IF h = "True"
               THEN /\ grid' = Occupy(size, grid, p)
                    /\ radiusSq' = GrowRadius(size, radiusSq, p)
                    /\ pc' = "loop"
                    /\ outcome' = "STUCK"
               ELSE /\ pc' = "walk"
                    /\ UNCHANGED <<grid, radiusSq, outcome>>
    /\ UNCHANGED <<size, mhVars>>

\* one pass of the for loop with the particle moved to p
StepTo(p) ==
    /\ pos' = p
    /\ steps' = steps + 1
    /\ IF HitEdge(size, p)
       THEN /\ pc' = "loop"
            /\ outcome' = "ESCAPED"
            /\ UNCHANGED <<grid, radiusSq>>
       ELSE LET h == has_neighbors(size, grid, p)
            IN IF h = "IndexError"
               THEN /\ pc' = "raised"
                    /\ UNCHANGED <<grid, radiusSq, outcome>>
               ELSE IF h = "True"
               THEN /\ grid' = Occupy(size, grid, p)
                    /\ radiusSq' = GrowRadius(size, radiusSq, p)
                    /\ pc' = "loop"
                    /\ outcome' = "STUCK"
               ELSE /\ pc' = "walk"
                    /\ UNCHANGED <<grid, radiusSq, outcome>>
    /\ UNCHANGED <<size, mhVars>>

StepIn(dirs) ==
    /\ pc = "walk"
    /\ steps < WalkSteps
    /\ \E d \in dirs :
         StepTo(<<pos[1] + possible_directions[d][1],
                  pos[2] + possible_directions[d][2]>>)

\* range(199) for range(200)
ExhaustEarly ==
    /\ pc = "walk"
    /\ steps = WalkSteps - 1
    /\ pc' = "loop"
    /\ outcome' = "EXHAUSTED"
    /\ UNCHANGED <<size, grid, radiusSq, pos, steps, mhVars>>

\* range(200) is used up
Exhaust ==
    /\ pc = "walk"
    /\ steps = WalkSteps
    /\ pc' = "loop"
    /\ outcome' = "EXHAUSTED"
    /\ UNCHANGED <<size, grid, radiusSq, pos, steps, mhVars>>

\* the number of particles that stuck on a free cell
Committed == Cardinality(grid) - 1

(***************************************************************************)
(* Spec: every particle enters at angle 0 or pi and walks along the row of *)
(* the center; the run goes on until generate_dla_grid returns.            *)
(***************************************************************************)
Spawn == SpawnAt(LaneOffsets(radiusSq))

Step == StepIn(LaneDirs)

Next == Create \/ Spawn \/ Return \/ Step \/ Exhaust

Spec == Init /\ [][Next]_vars

(***************************************************************************)
(* SpecFair: particles that enter at angle pi and walk along the row of the *)
(* center, with the whole walk of a particle, the for loop, as one step,   *)
(* and the fairness the random draws give. A particle's draws are    *)
(* one angle and at most 200 directions; a sequence of draws that commits  *)
(* a new cell, when there is one at every pass of the while loop, has a    *)
(* positive chance at every pass and is drawn in the end: WF on Grow. The  *)
(* running program does not stop by itself: WF on Create and Return.       *)
(***************************************************************************)

\* the positions the draws of dirs move a particle of front to
Moved(front, dirs) ==
    {<<p[1] + possible_directions[d][1], p[2] + possible_directions[d][2]>> :
       p \in front, d \in dirs}

\* m more passes from pass k on: <<the positions still walking, the ends>>,
\* an end being <<position, passes made, how the for loop was left>>
RECURSIVE Passes(_, _, _, _, _, _, _)
Passes(n, g, dirs, front, ends, k, m) ==
    IF m = 0 \/ front = {} THEN <<front, ends>>
    ELSE LET moved == Moved(front, dirs)
             tested == {p \in moved : ~HitEdge(n, p)}
             on == {p \in tested : has_neighbors(n, g, p) = "False"}
         IN Passes(n, g, dirs, on,
                   ends \cup {<<p, k + 1, "ESCAPED">> : p \in moved \ tested}
                        \cup {<<p, k + 1, IF has_neighbors(n, g, p) = "True"
                                          THEN "STUCK" ELSE "IndexError">> :
                                 p \in tested \ on},
                   k + 1, m - 1)

\* the passes are made ChunkLen at a time, to keep the recursion shallow
ChunkLen == WalkSteps \div 10

RECURSIVE WalkFrom(_, _, _, _, _, _)
WalkFrom(n, g, dirs, front, ends, k) ==
    IF front = {} THEN ends
    ELSE IF k = WalkSteps THEN ends \cup {<<p, k, "EXHAUSTED">> : p \in front}
    ELSE LET m == IF WalkSteps - k < ChunkLen THEN WalkSteps - k ELSE ChunkLen
             r == Passes(n, g, dirs, front, {}, k, m)
         IN WalkFrom(n, g, dirs, r[1], ends \cup r[2], k + m)

\* the ends of the walks, drawn from dirs, of a particle that enters on p
WalkEnds(n, g, dirs, p) == WalkFrom(n, g, dirs, {p}, {}, 0)

\* the offset of the angle pi
WestOffsets(rSq) == {o \in LaneOffsets(rSq) : o[1] < 0}

\* where and how the walks of a particle that enters at offset o can end
TrialEnds(o) ==
    {<<e[1], e[3]>> :
       e \in WalkEnds(size, grid, LaneDirs,
                      <<center(size)[1] + o[1], center(size)[2] + o[2]>>)}

\* the while test holds: a particle enters on the circle and walks to its end.
\* steps counts the passes of a for loop under way and is 0 outside of it.
Trial ==
    /\ pc = "loop"
    /\ BelowMaxRadius(size, radiusSq)
    /\ \E o \in WestOffsets(radiusSq) :
         \E e \in TrialEnds(o) :
           /\ pos' = e[1]
           /\ pc' = IF e[2] = "IndexError" THEN "raised" ELSE "loop"
           /\ outcome' = IF e[2] = "IndexError" THEN outcome ELSE e[2]
           /\ grid' = IF e[2] = "STUCK" THEN Occupy(size, grid, e[1]) ELSE grid
           /\ radiusSq' = IF e[2] = "STUCK" THEN GrowRadius(size, radiusSq, e[1])
                           ELSE radiusSq
    /\ UNCHANGED <<size, steps, mhVars>>

\* a particle is committed on a free cell
Grow == Trial /\ grid' # grid

\* ENABLED Grow: some walk of a particle ends on a free cell next to an
\* occupied one
CanGrow ==
    /\ pc = "loop"
    /\ BelowMaxRadius(size, radiusSq)
    /\ \E o \in WestOffsets(radiusSq) :
         \E e \in TrialEnds(o) :
           e[2] = "STUCK" /\ Occupy(size, grid, e[1]) # grid

\* a Grow step, as the steps of NextFair show it: only Create, which is not
\* taken at the while test, and Trial change grid
Grew == pc = "loop" /\ grid' # grid

\* WF_vars(Grow), with ENABLED Grow spelled out as CanGrow and Grow as Grew
FairGrow == []<>(~CanGrow) \/ []<><<Grew>>_vars

NextFair == Create \/ Trial \/ Return

SpecFair ==
    Init /\ [][NextFair]_vars /\ WF_vars(Create) /\ WF_vars(Return) /\ FairGrow

(***************************************************************************)
(* SpecFree: every entry angle and all 8 directions, for the first         *)
(* FreeSteps steps of each particle and the first MaxStuck commits.        *)
(***************************************************************************)
SpawnFree == Committed < MaxStuck /\ SpawnAt(EntryOffsets(radiusSq))

StepFree == steps < FreeSteps /\ StepIn(1..8)

NextFree == Create \/ SpawnFree \/ Return \/ StepFree

SpecFree == Init /\ [][NextFree]_vars

(***************************************************************************)
(* metropolis_hastings(density_func, size, alpha, burn). The reals are     *)
(* sampled on the integers: uniform(-alpha, alpha) is a value of           *)
(* -alpha .. alpha, and uniform(0, 1), which is never 1, is u / density(x) *)
(* for a u in 0 .. density(x) - 1, so the test uniform(0, 1) < ratio is    *)
(* u < density(candidate).                                                 *)
(***************************************************************************)

\* density_func
density_func(v) == Max0(Peak - Abs(v))

\* uniform(-a, a)
Uniform(a) == (-a)..a

InitMH ==
    /\ size \in 0..MaxSamples
    /\ alpha \in 1..MaxAlpha
    /\ burn \in 0..MaxBurn
    /\ burn0 = burn
    /\ x = 0
    /\ output = <<>>
    /\ accepted = <<>>
    /\ pc = "mh_call"
    /\ grid = {} /\ radiusSq = 0 /\ pos = <<0, 0>> /\ steps = 0 /\ outcome = "NONE"

\* output = [], x = uniform(-alpha, alpha)
MHStart ==
    /\ pc = "mh_call"
    /\ x' \in Uniform(alpha)
    /\ output' = <<>>
    /\ pc' = "mh_loop"
    /\ UNCHANGED <<size, dlaVars, alpha, burn, burn0, accepted>>

\* a burned candidate appended all the same
AcceptKeepsBurned(out, b, c) ==
    IF b = 0 THEN <<Append(out, c), b>> ELSE <<Append(out, c), b - 1>>

\* what an accepted candidate c does to output and burn
Accept(out, b, c) == IF b = 0 THEN <<Append(out, c), b>> ELSE <<out, b - 1>>

\* the test made with <= for <: a tie is accepted
AcceptsTie(u, c) == u <= density_func(c)

\* uniform(0, 1) < probability_ratio, for the draw u / density_func(x)
Accepts(u, c) == u < density_func(c)

\* the division by a zero density gives inf, as it does for numpy floats, and
\* the candidate is accepted
MHIterateInf ==
    /\ pc = "mh_loop"
    /\ Len(output) # size
    /\ \E jump \in Uniform(alpha) :
         LET candidate == x + jump
         IN \E u \in 0..Max0(density_func(x) - 1) :
              IF density_func(x) = 0 \/ Accepts(u, candidate)
              THEN /\ x' = candidate
                   /\ output' = Accept(output, burn, candidate)[1]
                   /\ burn' = Accept(output, burn, candidate)[2]
                   /\ accepted' = Append(accepted, candidate)
                   /\ pc' = pc
              ELSE UNCHANGED <<pc, x, output, burn, accepted>>
    /\ UNCHANGED <<size, dlaVars, alpha, burn0>>

\* one pass of the while loop: the ratio raises, or the candidate is accepted
\* or rejected
MHIterate ==
    /\ pc = "mh_loop"
    /\ Len(output) # size
    /\ \E jump \in Uniform(alpha) :
         LET candidate == x + jump
         IN IF density_func(x) = 0
            THEN /\ pc' = "mh_raised"
                 /\ UNCHANGED <<x, output, burn, accepted>>
            ELSE \E u \in 0..(density_func(x) - 1) :
                   IF Accepts(u, candidate)
                   THEN /\ x' = candidate
                        /\ output' = Accept(output, burn, candidate)[1]
                        /\ burn' = Accept(output, burn, candidate)[2]
                        /\ accepted' = Append(accepted, candidate)
                        /\ pc' = pc
                   ELSE UNCHANGED <<pc, x, output, burn, accepted>>
    /\ UNCHANGED <<size, dlaVars, alpha, burn0>>

\* len(output) = size: return output
MHReturn ==
    /\ pc = "mh_loop"
    /\ Len(output) = size
    /\ pc' = "mh_done"
    /\ UNCHANGED <<size, dlaVars, mhVars>>

NextMH == MHStart \/ MHIterate \/ MHReturn

SpecMH == InitMH /\ [][NextMH]_vars

(* ------------------------------ claims --------------------------------- *)

InField(n, c) == c[1] \in 0..(n - 1) /\ c[2] \in 0..(n - 1)

Adjacent(c, d) == c # d /\ Abs(c[1] - d[1]) <= 1 /\ Abs(c[2] - d[2]) <= 1

\* an occupied cell of the field is one of the 8 lattice neighbours of c
HasTrueNeighbor(n, g, c) == \E d \in g : InField(n, d) /\ Adjacent(c, d)

\* the main loop is entered for this size
EntersLoop(n) == n > MaxIdleSize

\* C1: occupancy is monotonic: across every step of a run the occupied cells
\* before are a subset of the occupied cells after.
C1_Monotonic == [][grid \subseteq grid']_vars

\* after commits, a particle has entered on a cell that is already occupied
C1_Witness == pc = "walk" /\ outcome = "STUCK" /\ Committed >= 2 /\ pos \in grid

\* C2: every cell other than the seed that becomes occupied had, in the state
\* before, an occupied cell among its 8 lattice neighbours inside the field.
C2_CommitNextToOccupied ==
    [][pc = "walk" => \A c \in grid' \ grid : HasTrueNeighbor(size, grid, c)]_vars

\* a particle was committed away from the row of the center
C2_Witness ==
    /\ outcome = "STUCK" /\ pos \in grid /\ pos # center(size)
    /\ pos[2] # center(size)[2]

\* C3 as stated: when generate_dla_grid returns after entering the main loop,
\* radius <= max radius, that is 2 * radius <= size - 4.
C3_RadiusAtMostMax ==
    pc = "done" /\ EntersLoop(size) => 4 * radiusSq <= (size - 4) * (size - 4)

\* C3 amended: when generate_dla_grid returns after entering the main loop, the
\* radius is at least the max radius and exceeds it by less than 3/2:
\* size - 4 <= 2 * radius < size - 1.
C3_RadiusNearMax ==
    pc = "done" /\ EntersLoop(size) =>
        /\ (size - 4) * (size - 4) <= 4 * radiusSq
        /\ 4 * radiusSq < (size - 1) * (size - 1)

\* the run returned with a radius above the max radius
C3_Witness ==
    pc = "done" /\ EntersLoop(size) /\ 4 * radiusSq > (size - 4) * (size - 4)

\* C4: the radius never decreases, and it changes only when a particle sticks
\* farther from the center than the radius, to that particle's distance.
C4_RadiusGrowsOnStick ==
    [][/\ radiusSq' >= radiusSq
       /\ radiusSq' # radiusSq =>
            /\ pc = "walk" /\ outcome' = "STUCK" /\ pos' \in grid'
            /\ DistSq(size, pos') > radiusSq
            /\ radiusSq' = DistSq(size, pos')]_vars

\* the radius has grown and a later particle stuck inside the circle
C4_Witness ==
    /\ radiusSq > InitRadius * InitRadius /\ pc = "loop" /\ outcome = "STUCK"
    /\ DistSq(size, pos) < radiusSq

\* C5: for size >= 1 the seed cell at the center is occupied in every state
\* from the creation of the grid on, the returned grid included, and nothing
\* is raised.
C5_SeedOccupied ==
    size >= 1 /\ pc # "create" => pc # "raised" /\ center(size) \in grid

\* the run returned after particles were committed
C5_Witness == pc = "done" /\ Committed >= 2 /\ center(size) \in grid

\* C6: for 1 <= size <= 24 the main loop is never entered, nothing is raised
\* and the grid keeps exactly one occupied cell, the seed.
C6_SmallSizeSeedOnly ==
    size \in 1..MaxIdleSize =>
        /\ pc \in {"create", "loop", "done"}
        /\ pc = "loop" => ~ENABLED Spawn /\ ENABLED Return
        /\ pc # "create" => grid = {center(size)}
        /\ steps = 0 /\ outcome = "NONE"

\* size 24 returned the seed alone
C6_Witness ==
    pc = "done" /\ size = MaxIdleSize /\ grid = {center(size)}

C8_BadSizeRaises ==
    size <= 0 =>
        /\ pc \in {"create", "raised"}
        /\ pc = "create" => ENABLED Create /\ ~ENABLED Spawn /\ ~ENABLED Return
        /\ grid = {} /\ steps = 0 /\ outcome = "NONE"

\* size 0 raised
C8_Witness == size = 0 /\ pc = "raised"

\* the k-th cell has_neighbors probes around p
Probe(p, k) ==
    <<p[1] + possible_directions[k][1], p[2] + possible_directions[k][2]>>

\* C9: for every position that passed the bounds test after a step,
\* has_neighbors raises nothing and is true exactly when one of the 8 lattice
\* neighbours inside the field is occupied; a probe outside the field never
\* reads an occupied cell.
C9_NeighborTest ==
    [][pc = "walk" /\ steps' = steps + 1 /\ ~HitEdge(size, pos') =>
         /\ pc' # "raised"
         /\ has_neighbors(size, grid, pos') # "IndexError"
         /\ has_neighbors(size, grid, pos') = "True"
               <=> HasTrueNeighbor(size, grid, pos')
         /\ \A k \in 1..8 :
               ~InField(size, Probe(pos', k)) =>
                   Read(size, grid, Probe(pos', k)) = "False"]_vars

\* a particle was tested in the corner (0, 0), where 5 probes leave the field
C9_Witness == pc = "walk" /\ steps > 0 /\ pos = <<0, 0>>

\* C10: for size >= 0 and burn >= 0 the current state is the last accepted
\* candidate and output is the accepted candidates after the first burn of
\* them; at the return it is the candidates burn + 1 .. burn + size, size of
\* them.
C10_OutputIsAcceptedAfterBurn ==
    pc \in {"mh_loop", "mh_done"} =>
        /\ accepted # <<>> => x = accepted[Len(accepted)]
        /\ burn = Max0(burn0 - Len(accepted))
        /\ output = SubSeq(accepted, burn0 + 1, Len(accepted))
        /\ pc = "mh_done" =>
              /\ Len(output) = size
              /\ size > 0 => Len(accepted) = burn0 + size
              /\ output = SubSeq(accepted, burn0 + 1, burn0 + size)

\* a call returned MaxSamples samples after burning MaxBurn candidates
C10_Witness ==
    /\ pc = "mh_done" /\ size = MaxSamples /\ burn0 = MaxBurn
    /\ Len(output) = MaxSamples /\ Len(accepted) = MaxBurn + MaxSamples

\* the particle's walk has ended for a reason the for loop knows: the bounds
\* test, the neighbour test, or range(200) used up
WalkEnded ==
    \/ steps' = steps + 1 /\ HitEdge(size, pos')
    \/ steps' = steps + 1 /\ has_neighbors(size, grid, pos') = "True"
    \/ steps' = steps /\ steps = WalkSteps

\* C12: a particle is spawned only at a while test that finds radius < max
\* radius; generate_dla_grid returns only at a while test that finds radius >=
\* max radius, which for a size that enters the loop is the test after a
\* particle stuck, and at such a test it does nothing but return; a walk is
\* left only by the bounds test, the neighbour test or the end of range(200),
\* never for the radius, and never by a return.
C12_LoopTestDecides ==
    /\ [](pc = "loop" =>
            /\ BelowMaxRadius(size, radiusSq) => ENABLED Spawn /\ ~ENABLED Return
            /\ ~BelowMaxRadius(size, radiusSq) => ENABLED Return /\ ~ENABLED Spawn)
    /\ [][/\ pc = "loop" /\ pc' = "walk" => BelowMaxRadius(size, radiusSq)
          /\ pc' = "done" =>
                /\ pc = "loop" /\ ~BelowMaxRadius(size, radiusSq)
                /\ EntersLoop(size) => outcome = "STUCK"
          /\ pc = "walk" /\ pc' # "walk" => pc' = "loop" /\ WalkEnded
          /\ pc # "done"]_vars

\* the run returned at the test after the particle that set the last radius
C12_Witness ==
    /\ pc = "done" /\ EntersLoop(size) /\ outcome = "STUCK"
    /\ radiusSq = DistSq(size, pos) /\ ~BelowMaxRadius(size, radiusSq)

\* C13: a spawned particle makes at most 200 steps and its walk ends as STUCK,
\* ESCAPED or EXHAUSTED: the first step after which it fails the bounds test
\* ends it as ESCAPED, the first step after which it passes that test with an
\* occupied neighbour ends it as STUCK, every other step leaves it walking, and
\* it ends as EXHAUSTED only with 200 steps made, each of which left it inside
\* the field with no occupied neighbour.
C13_WalkEndsOneWay ==
    /\ [](pc = "walk" =>
            /\ steps <= WalkSteps
            /\ steps > 0 =>
                  /\ InField(size, pos) /\ ~HitEdge(size, pos)
                  /\ has_neighbors(size, grid, pos) = "False")
    /\ [][/\ pc = "loop" /\ pc' = "walk" => steps' = 0
          /\ pc = "walk" /\ steps < WalkSteps => steps' = steps + 1
          /\ pc = "walk" /\ steps = WalkSteps =>
                pc' = "loop" /\ outcome' = "EXHAUSTED"
          /\ pc = "walk" /\ steps' = steps + 1 =>
                IF HitEdge(size, pos') \/ ~InField(size, pos')
                THEN pc' = "loop" /\ outcome' = "ESCAPED"
                ELSE IF has_neighbors(size, grid, pos') = "True"
                THEN pc' = "loop" /\ outcome' = "STUCK"
                ELSE pc' = "walk"
          /\ pc = "walk" /\ pc' # "walk" =>
                /\ pc' = "loop"
                /\ outcome' \in {"STUCK", "ESCAPED", "EXHAUSTED"}
                /\ outcome' = "EXHAUSTED" <=> steps' = steps
                /\ steps' = steps => steps = WalkSteps]_vars

\* a particle used up its 200 steps between the aggregate and the edge
C13_Witness ==
    /\ pc = "loop" /\ outcome = "EXHAUSTED" /\ steps = WalkSteps
    /\ ~HasTrueNeighbor(size, grid, pos)

\* C14: a particle that ends ESCAPED or EXHAUSTED leaves the grid as it was:
\* its entry, each of its steps and its discarding change neither the occupancy
\* of any cell nor the radius; these change only in the step that ends a walk
\* as STUCK.
C14_DiscardLeavesNoTrace ==
    [][/\ pc = "loop" /\ pc' = "walk" => grid' = grid /\ radiusSq' = radiusSq
       /\ pc = "walk" /\ ~(pc' = "loop" /\ outcome' = "STUCK") =>
             grid' = grid /\ radiusSq' = radiusSq]_vars

\* a particle escaped on the last column after cells were committed
C14_Witness ==
    /\ pc = "loop" /\ outcome = "ESCAPED" /\ Committed >= 2
    /\ pos[1] = size - 1 /\ pos \notin grid

\* C15: when a particle sticks at p, afterwards cell p is occupied, every other
\* cell is as it was, the number of occupied cells has grown by at most one,
\* and the radius is the larger of the radius before and the distance of p
\* from the center.
C15_StickSetsOneCell ==
    [][pc = "walk" /\ pc' = "loop" /\ outcome' = "STUCK" =>
         /\ InField(size, pos') /\ pos' \in grid'
         /\ grid' \ {pos'} = grid \ {pos'}
         /\ Cardinality(grid') <= Cardinality(grid) + 1
         /\ radiusSq' = IF DistSq(size, pos') > radiusSq
                         THEN DistSq(size, pos') ELSE radiusSq]_vars

\* a particle stuck beyond the circle and the radius is its distance
C15_Witness ==
    /\ pc = "loop" /\ outcome = "STUCK" /\ pos \in grid
    /\ radiusSq = DistSq(size, pos) /\ radiusSq > InitRadius * InitRadius

\* C16 as stated: a particle is abandoned as ESCAPED after a step exactly when
\* its position is outside the size x size field.
C16_EscapedIffOutside ==
    [][pc = "walk" /\ steps' = steps + 1 =>
         (pc' = "loop" /\ outcome' = "ESCAPED" <=> ~InField(size, pos'))]_vars

\* C17 as stated: for size >= 1 the center, the cell seeded at creation, is
\* (size div 2, size div 2).
C17_CenterIsFloor ==
    size >= 1 /\ pc = "loop" =>
        /\ center(size) = <<size \div 2, size \div 2>>
        /\ <<size \div 2, size \div 2>> \in grid

\* C18: from the creation of the grid on, every occupied cell is at a distance
\* from the center of at most the radius, and the radius is the initial 10 or
\* the distance from the center of some occupied cell.
C18_RadiusCoversAggregate ==
    pc \in {"loop", "walk", "done"} =>
        /\ \A c \in grid : DistSq(size, c) <= radiusSq
        /\ \/ radiusSq = InitRadius * InitRadius
           \/ \E c \in grid : DistSq(size, c) = radiusSq

\* the radius has grown and the cell that set it is not the last one committed
C18_Witness ==
    /\ pc = "loop" /\ outcome = "STUCK" /\ radiusSq > InitRadius * InitRadius
    /\ DistSq(size, pos) < radiusSq
    /\ \E c \in grid : c[1] > center(size)[1] /\ DistSq(size, c) = radiusSq

\* the occupied cells joined to those of seen by paths of occupied cells of the
\* field, each next to the one before
RECURSIVE Joined(_, _, _)
Joined(n, g, seen) ==
    LET more == {c \in g \ seen : InField(n, c) /\ \E d \in seen : Adjacent(c, d)}
    IN IF more = {} THEN seen ELSE Joined(n, g, seen \cup more)

\* C19: from the creation of the grid on, the aggregate is 8-connected: every
\* occupied cell is joined to the seed by a path of occupied cells of the field
\* in which each cell is one of the 8 lattice neighbours of the one before.
C19_Connected ==
    pc \in {"loop", "walk", "done"} =>
        Joined(size, grid, {center(size)}) = grid

\* the run returned with cells committed on both sides of the seed
C19_Witness ==
    /\ pc = "done" /\ EntersLoop(size)
    /\ \E c \in grid : c[1] < center(size)[1] - 1
    /\ \E c \in grid : c[1] > center(size)[1] + 1

\* C11: in metropolis_hastings, whenever the density is zero at the current
\* state x when a pass of the while loop computes the ratio, the pass raises
\* ZeroDivisionError: x and output are left as they were, and after the raise
\* nothing more is done and nothing is returned.
C11_ZeroDensityRaises ==
    [][/\ pc = "mh_loop" /\ Len(output) # size /\ density_func(x) = 0 =>
            pc' = "mh_raised" /\ output' = output /\ x' = x
       /\ pc # "mh_raised"]_vars

\* a call that was to return samples raised on a current state of density zero
C11_Witness == pc = "mh_raised" /\ size > 0 /\ density_func(x) = 0

\* C20: a candidate whose density is zero is never accepted, so once a
\* candidate has been accepted the current state has a density above zero, and
\* ZeroDivisionError is raised only while no candidate has been accepted and
\* x is still the initial draw from [-alpha, alpha].
C20_ZeroNeverAccepted ==
    pc \in {"mh_loop", "mh_raised", "mh_done"} =>
        /\ \A i \in 1..Len(accepted) : density_func(accepted[i]) > 0
        /\ accepted # <<>> => density_func(x) > 0
        /\ pc = "mh_raised" =>
              accepted = <<>> /\ output = <<>> /\ x \in Uniform(alpha)

\* a candidate of density zero was drawn from a current state of density above
\* zero that had been accepted before, and was not accepted
C20_Witness ==
    /\ pc = "mh_loop" /\ Len(accepted) >= 2
    /\ density_func(x) = Peak - MaxAlpha + 1
    /\ \E jump \in Uniform(alpha) : density_func(x + jump) = 0

====
